---- MODULE Spec2Model ----
(***************************************************************************)
(* Expense tracker (src/index.js): the App component's state, its event    *)
(* handlers, the persistence effect and the derived filter / summary       *)
(* values.                                                                 *)
(*                                                                         *)
(* Text that the code parses (amounts, due dates, the year and month       *)
(* filters) is a tuple of one-character strings, so that parseFloat,       *)
(* parseInt and new Date are computed character by character.  A JS number *)
(* is a record [nan, n]: NaN is [nan |-> TRUE, n |-> 0].                   *)
(***************************************************************************)
EXTENDS Integers, Sequences, FiniteSets, TLC

\* ---------------------------------------------------------------- bounds
MaxExpenses == 2      \* longest collection an add may produce
MaxClock == 4         \* last reading of Date.now() in a run; the first is 3

\* ------------------------------------------------------------ JS numbers
NaN == [nan |-> TRUE, n |-> 0]
Num(k) == [nan |-> FALSE, n |-> k]

\* a + b of two JS numbers
NumAdd(a, b) == IF a.nan \/ b.nan THEN NaN ELSE Num(a.n + b.n)

\* a - b of two JS numbers
NumSub(a, b) == IF a.nan \/ b.nan THEN NaN ELSE Num(a.n - b.n)

\* a === b of two JS numbers: NaN is equal to nothing, itself included
NumStrictEq(a, b) == ~a.nan /\ ~b.nan /\ a.n = b.n

\* a <= b of two JS numbers: every comparison with NaN is false
NumLeq(a, b) == ~a.nan /\ ~b.nan /\ a.n <= b.n

\* ------------------------------------------------------------- JS strings
Undefined == <<"undefined">>          \* a property the object does not have
DigitChars == <<"0", "1", "2", "3", "4", "5", "6", "7", "8", "9">>

DigitSet == {DigitChars[k] : k \in 1..10}
IsDigit(c) == c \in DigitSet
DigitVal(c) == (CHOOSE k \in 1..10 : DigitChars[k] = c) - 1

\* !!v of a string-or-undefined value
Truthy(s) == s # Undefined /\ s # <<>>

\* number of leading decimal digits of s
RECURSIVE DigitPrefixLen(_)
DigitPrefixLen(s) ==
    IF s = <<>> \/ ~IsDigit(Head(s)) THEN 0 ELSE 1 + DigitPrefixLen(Tail(s))

\* value of a string of decimal digits
RECURSIVE DigitsValue(_)
DigitsValue(s) ==
    IF s = <<>> THEN 0
    ELSE 10 * DigitsValue(SubSeq(s, 1, Len(s) - 1)) + DigitVal(s[Len(s)])

\* the decimal digits of a natural number
RECURSIVE ToDigits(_)
ToDigits(k) ==
    IF k < 10 THEN <<DigitChars[k + 1]>>
    ELSE ToDigits(k \div 10) \o <<DigitChars[(k % 10) + 1]>>

\* optional sign, then the longest prefix of digits; NaN when there is none
SignedDigitPrefix(s) ==
    LET signed == s # <<>> /\ s[1] \in {"-", "+"}
        body == IF signed THEN Tail(s) ELSE s
        k == DigitPrefixLen(body)
        v == DigitsValue(SubSeq(body, 1, k))
    IN  IF s = Undefined \/ k = 0 THEN NaN
        ELSE IF signed /\ s[1] = "-" THEN Num(0 - v) ELSE Num(v)

\* parseFloat(s), for text without fraction or exponent
ParseFloat(s) == SignedDigitPrefix(s)

\* parseInt(s), radix 10
ParseInt(s) == SignedDigitPrefix(s)

\* parseFloat(exp.amount || 0)
AmountOrZero(amount) == IF Truthy(amount) THEN ParseFloat(amount) ELSE Num(0)

\* ---------------------------------------------------------------- dates
InvalidDate == [valid |-> FALSE, y |-> 0, m |-> 0, d |-> 0]

\* new Date(s): a date-only ISO text YYYY-MM-DD is midnight UTC of that day;
\* undefined and text of any other shape give Invalid Date
NewDate(s) ==
    IF /\ s # Undefined
       /\ Len(s) = 10
       /\ s[5] = "-" /\ s[8] = "-"
       /\ \A k \in {1, 2, 3, 4, 6, 7, 9, 10} : IsDigit(s[k])
    THEN LET y == DigitsValue(SubSeq(s, 1, 4))
             m == DigitsValue(SubSeq(s, 6, 7))
             d == DigitsValue(SubSeq(s, 9, 10))
         IN  IF m \in 1..12 /\ d \in 1..31
             THEN [valid |-> TRUE, y |-> y, m |-> m, d |-> d]
             ELSE InvalidDate
    ELSE InvalidDate

\* Date.prototype.getMonth(): zero-indexed month of the instant in LOCAL time;
\* west of Greenwich, midnight UTC is still the evening of the day before
GetMonth(date, west) ==
    IF ~date.valid THEN NaN
    ELSE IF west /\ date.d = 1 THEN Num((date.m + 10) % 12)
    ELSE Num(date.m - 1)

\* Date.prototype.getFullYear(): year of the instant in LOCAL time
GetFullYear(date, west) ==
    IF ~date.valid THEN NaN
    ELSE IF west /\ date.d = 1 /\ date.m = 1 THEN Num(date.y - 1)
    ELSE Num(date.y)

\* ------------------------------------------------------------------ JSON
NoToken == [t |-> "none", v |-> <<>>]
NumToken(k) == [t |-> "num", v |-> ToDigits(k)]
StrToken(s) == [t |-> "str", v |-> s]
BoolToken(b) == [t |-> IF b THEN "true" ELSE "false", v |-> <<>>]

\* JSON.stringify of one expense: a property that is undefined is left out
StringifyExpense(e) ==
    [null |-> FALSE,
     id |-> NumToken(e.id),
     name |-> StrToken(<<e.name>>),
     amount |-> IF e.amount = Undefined THEN NoToken ELSE StrToken(e.amount),
     dueDate |-> IF e.dueDate = Undefined THEN NoToken ELSE StrToken(e.dueDate),
     category |-> StrToken(<<e.category>>),
     paid |-> BoolToken(e.paid)]

\* JSON.stringify(expenses): the text of an array of objects
JSONStringify(exps) ==
    [kind |-> "array", items |-> [k \in 1..Len(exps) |-> StringifyExpense(exps[k])]]

\* the object an object text parses to
ParseExpense(o) ==
    [id |-> DigitsValue(o.id.v),
     name |-> o.name.v[1],
     amount |-> IF o.amount.t = "none" THEN Undefined ELSE o.amount.v,
     dueDate |-> IF o.dueDate.t = "none" THEN Undefined ELSE o.dueDate.v,
     category |-> o.category.v[1],
     paid |-> o.paid.t = "true"]

\* the text of the array element null
NullItem ==
    [null |-> TRUE, id |-> NoToken, name |-> NoToken, amount |-> NoToken,
     dueDate |-> NoToken, category |-> NoToken, paid |-> NoToken]

\* stored values: the key is absent, or holds a text
AbsentBlob == [kind |-> "absent", items |-> <<>>]     \* getItem gives null
JunkBlob == [kind |-> "junk", items |-> <<>>]         \* not json
NullBlob == [kind |-> "null", items |-> <<>>]         \* the text null
ObjectBlob == [kind |-> "object", items |-> <<>>]     \* the text {}

\* the initializer of the expenses state: what useState starts with.
\* threw: JSON.parse raised and the catch returned []; isArray and hasNull
\* describe the value that was returned.
LoadExpenses(blob) ==
    IF blob.kind = "absent"
    THEN [isArray |-> TRUE, hasNull |-> FALSE, threw |-> FALSE, list |-> <<>>]
    ELSE IF blob.kind = "junk"
    THEN [isArray |-> TRUE, hasNull |-> FALSE, threw |-> TRUE, list |-> <<>>]
    ELSE IF blob.kind = "array"
    THEN [isArray |-> TRUE,
          hasNull |-> \E k \in 1..Len(blob.items) : blob.items[k].null,
          threw |-> FALSE,
          list |-> IF \E k \in 1..Len(blob.items) : blob.items[k].null
                   THEN <<>>
                   ELSE [k \in 1..Len(blob.items) |-> ParseExpense(blob.items[k])]]
    ELSE [isArray |-> FALSE, hasNull |-> FALSE, threw |-> FALSE, list |-> <<>>]

\* the first render throws a TypeError: expenses.map on a value that is not
\* an array, or exp.dueDate on an element that is null
RenderThrows(loaded) == ~loaded.isArray \/ loaded.hasNull

\* ------------------------------------------------------- the collection
\* addExpense: the list handed to setExpenses; ts is the reading of Date.now()
addExpense(exps, expense, ts) ==
    Append(exps, [id |-> ts, name |-> expense.name, amount |-> expense.amount,
                  dueDate |-> expense.dueDate, category |-> expense.category,
                  paid |-> FALSE])

\* updateExpense: every record with the id of updatedExpense is replaced by it
updateExpense(exps, updatedExpense) ==
    [k \in 1..Len(exps) |->
        IF exps[k].id = updatedExpense.id THEN updatedExpense ELSE exps[k]]

\* deleteExpense, once confirmed: the records whose id differs from id
deleteExpense(exps, id) ==
    LET Keep(e) == e.id # id IN SelectSeq(exps, Keep)

\* togglePaid: every record with this id has its paid flag negated
togglePaid(exps, id) ==
    [k \in 1..Len(exps) |->
        IF exps[k].id = id THEN [exps[k] EXCEPT !.paid = ~exps[k].paid]
        ELSE exps[k]]

\* ------------------------------------------------------------ the filter
All == <<"A", "l", "l">>

\* FilterMatch without its first line, the test of a missing dueDate
FilterMatchNoGuard(expense, cat, month, year, west) ==
    LET expenseDate == NewDate(expense.dueDate)
        expenseMonth == GetMonth(expenseDate, west)
        expenseYear == GetFullYear(expenseDate, west)
        categoryMatch == cat = "All" \/ expense.category = cat
        yearMatch == year = All \/ NumStrictEq(expenseYear, ParseInt(year))
        monthMatch == month = All \/ NumStrictEq(expenseMonth, ParseInt(month))
    IN  categoryMatch /\ yearMatch /\ monthMatch

\* the callback of expenses.filter: is this expense shown under the filters
FilterMatch(expense, cat, month, year, west) ==
    IF ~Truthy(expense.dueDate) THEN FALSE
    ELSE LET expenseDate == NewDate(expense.dueDate)
             expenseMonth == GetMonth(expenseDate, west)
             expenseYear == GetFullYear(expenseDate, west)
             categoryMatch == cat = "All" \/ expense.category = cat
             yearMatch == year = All \/ NumStrictEq(expenseYear, ParseInt(year))
             monthMatch == month = All \/ NumStrictEq(expenseMonth, ParseInt(month))
         IN  categoryMatch /\ yearMatch /\ monthMatch

\* filteredExpenses
Filtered(exps, cat, month, year, west) ==
    LET Shown(e) == FilterMatch(e, cat, month, year, west)
    IN  SelectSeq(exps, Shown)

\* ----------------------------------------------------------- the summary
\* list.reduce((sum, exp) => sum + parseFloat(exp.amount || 0), 0)
RECURSIVE SumAmounts(_)
SumAmounts(list) ==
    IF list = <<>> THEN Num(0)
    ELSE NumAdd(SumAmounts(SubSeq(list, 1, Len(list) - 1)),
                AmountOrZero(list[Len(list)].amount))

\* totalExpenses
TotalOf(list) == SumAmounts(list)

\* paidExpenses
PaidOf(list) == LET IsPaid(e) == e.paid IN SumAmounts(SelectSeq(list, IsPaid))

\* unpaidExpenses
UnpaidOf(list) == NumSub(TotalOf(list), PaidOf(list))

\* ------------------------------------------------------------ validation
RequiredMsg == "All fields are required."
AmountMsg == "Amount must be greater than zero."

\* ValidationError with < in place of <=: an amount of 0 passes
ValidationErrorStrict(name, amount, dueDate, category) ==
    IF name = "" \/ ~Truthy(amount) \/ ~Truthy(dueDate) \/ category = ""
    THEN RequiredMsg
    ELSE IF ~NumStrictEq(ParseFloat(amount), Num(0))
            /\ NumLeq(ParseFloat(amount), Num(0)) THEN AmountMsg
    ELSE ""

\* the message handleSubmit sets; "" when the draft goes on to add or update
ValidationError(name, amount, dueDate, category) ==
    IF name = "" \/ ~Truthy(amount) \/ ~Truthy(dueDate) \/ category = ""
    THEN RequiredMsg
    ELSE IF NumLeq(ParseFloat(amount), Num(0)) THEN AmountMsg
    ELSE ""

\* ----------------------------------------------------------------- state
VARIABLES
    phase,            \* "init" before the first render, then "running" or "crashed"
    storage,          \* localStorage['expenses']
    storeHealthy,     \* FALSE: setItem throws in this session (a private
                      \* window: the store is empty and rejects every write)
    tzWest,           \* TRUE: the local time zone is west of Greenwich
    now,              \* the reading of Date.now()
    expenses,         \* App state
    isFormOpen,       \* App state
    editingExpense,   \* App state: <<>> for null, else <<the expense>>
    categoryFilter,   \* App state
    monthFilter,      \* App state
    yearFilter,       \* App state
    error             \* ExpenseForm state; "" while no form is mounted

vars == <<phase, storage, storeHealthy, tzWest, now, expenses, isFormOpen,
          editingExpense, categoryFilter, monthFilter, yearFilter, error>>

\* ------------------------------------------------------- modelled inputs
D20250301 == <<"2", "0", "2", "5", "-", "0", "3", "-", "0", "1">>
D20241101 == <<"2", "0", "2", "4", "-", "1", "1", "-", "0", "1">>

\* what the form may hold when it is submitted: the fields are state of the
\* mounted ExpenseForm, set by onChange to whatever was typed before the
\* submit (setAmount and setDueDate take e.target.value as it comes)
Draft(name, amount, dueDate, category) ==
    [name |-> name, amount |-> amount, dueDate |-> dueDate, category |-> category]
FormInputs ==
    {Draft("Rent", <<"1", "0">>, D20250301, "Utilities"),
     Draft("Rent", <<"a", "b", "c">>, D20250301, "Utilities"),
     Draft("Rent", <<"-", "5">>, D20250301, "Utilities"),
     Draft("Rent", <<"0">>, D20250301, "Utilities"),
     Draft("", <<"1", "0">>, D20250301, "Utilities"),
     Draft("Rent", <<>>, D20250301, "Utilities"),
     Draft("Rent", <<"1", "0">>, <<>>, "Utilities"),
     Draft("", <<"-", "5">>, <<>>, "Utilities")}
CategoryOptions == {"All", "Utilities"}
MonthOptions == {All, <<"2">>}
YearOptions == {All, <<"2", "0", "2", "5">>}

\* records of earlier sessions; their ids are clock readings of that time
Water == [id |-> 1, name |-> "Water", amount |-> <<"1", "0">>,
          dueDate |-> D20250301, category |-> "Utilities", paid |-> FALSE]
Gas == [id |-> 2, name |-> "Gas", amount |-> <<"7">>,
        dueDate |-> D20241101, category |-> "Other", paid |-> TRUE]

\* records an earlier version or another program may have left in the store
NoDate == [id |-> 3, name |-> "Old", amount |-> Undefined,
           dueDate |-> Undefined, category |-> "Other", paid |-> FALSE]
EmptyDate == [id |-> 4, name |-> "Blank", amount |-> <<>>,
              dueDate |-> <<>>, category |-> "Utilities", paid |-> TRUE]
BadDate == [id |-> 5, name |-> "Odd", amount |-> <<"a", "b", "c">>,
            dueDate |-> <<"s", "o", "o", "n">>, category |-> "Utilities",
            paid |-> TRUE]
NewYear == [id |-> 6, name |-> "Tax", amount |-> <<"2", "0">>,
            dueDate |-> <<"2", "0", "2", "5", "-", "0", "1", "-", "0", "1">>,
            category |-> "Other", paid |-> FALSE]
ViewRecords == {Water, Gas, NoDate, EmptyDate, BadDate, NewYear}

\* the collections of distinct records of at most MaxExpenses elements
ViewCollections ==
    {c \in UNION {[1..n -> ViewRecords] : n \in 0..MaxExpenses} :
        \A i, j \in 1..Len(c) : i # j => c[i] # c[j]}
ViewBlobs == {JSONStringify(c) : c \in ViewCollections}
ViewCategoryOptions == CategoryOptions \cup {"Other"}
ViewMonthOptions == MonthOptions \cup {<<"0">>, <<"1", "0">>}
ViewYearOptions == YearOptions \cup {<<"2", "0", "2", "4">>}

\* stored values a session may start from
StoredBlobs ==
    {AbsentBlob, JunkBlob, NullBlob, ObjectBlob,
     [kind |-> "array", items |-> <<NullItem>>],
     JSONStringify(<<Water, Gas>>)}

\* ---------------------------------------------------------------- effects
\* PersistEffect with an empty dependency list: it runs after the first
\* render only
PersistEffectOnMountOnly(stored, exps) ==
    IF storeHealthy /\ phase = "init" THEN JSONStringify(exps) ELSE stored

\* the effect on [expenses]: localStorage.setItem inside try / catch
PersistEffect(stored, exps) ==
    IF storeHealthy THEN JSONStringify(exps) ELSE stored

\* the list the ExpenseList shows.  ExpenseList sorts this derived array by
\* dueDate for display; the sort reaches neither expenses nor the summary,
\* which is computed before it, and does not change which items have buttons.
Shown == Filtered(expenses, categoryFilter, monthFilter, yearFilter, tzWest)

\* ------------------------------------------------------------------ Init
\* Before the first render.  The time zone only matters to the derived list:
\* Init keeps it east of Greenwich and InitView draws both kinds.
\* isChartVisible only switches the chart on and off and is left out.
Init ==
    /\ phase = "init"
    /\ storeHealthy \in BOOLEAN
    /\ storage \in IF storeHealthy THEN StoredBlobs ELSE {AbsentBlob}
    /\ tzWest = FALSE
    /\ now = 3
    /\ expenses = <<>>
    /\ isFormOpen = FALSE
    /\ editingExpense = <<>>
    /\ categoryFilter = "All"
    /\ monthFilter = All
    /\ yearFilter = All
    /\ error = ""

\* a first visit: nothing is stored
InitFresh == Init /\ storage = AbsentBlob

\* a session that starts from any stored collection, in either kind of time
\* zone; it is the start of the runs that only load and filter
InitView ==
    /\ phase = "init"
    /\ storeHealthy = TRUE
    /\ storage \in ViewBlobs
    /\ tzWest \in BOOLEAN
    /\ now = 3
    /\ expenses = <<>>
    /\ isFormOpen = FALSE
    /\ editingExpense = <<>>
    /\ categoryFilter = "All"
    /\ monthFilter = All
    /\ yearFilter = All
    /\ error = ""

\* --------------------------------------------------------------- actions
\* the first render of App: the state initializer, the render, the effect
Mount ==
    /\ phase = "init"
    /\ LET loaded == LoadExpenses(storage)
       IN  IF RenderThrows(loaded)
           THEN /\ phase' = "crashed"
                /\ UNCHANGED <<expenses, storage>>
           ELSE /\ phase' = "running"
                /\ expenses' = loaded.list
                /\ storage' = PersistEffect(storage, loaded.list)
    /\ UNCHANGED <<storeHealthy, tzWest, now, isFormOpen, editingExpense,
                   categoryFilter, monthFilter, yearFilter, error>>

\* time passes between two events
Tick ==
    /\ now < MaxClock
    /\ now' = now + 1
    /\ UNCHANGED <<phase, storage, storeHealthy, tzWest, expenses, isFormOpen,
                   editingExpense, categoryFilter, monthFilter, yearFilter, error>>

\* handleAddNew; a form that is already mounted keeps its own state
HandleAddNew ==
    /\ phase = "running"
    /\ editingExpense' = <<>>
    /\ isFormOpen' = TRUE
    /\ UNCHANGED <<phase, storage, storeHealthy, tzWest, now, expenses,
                   categoryFilter, monthFilter, yearFilter, error>>

\* handleEdit(expense), from the Edit button of an expense shown
HandleEdit(expense) ==
    /\ phase = "running"
    /\ editingExpense' = <<expense>>
    /\ isFormOpen' = TRUE
    /\ UNCHANGED <<phase, storage, storeHealthy, tzWest, now, expenses,
                   categoryFilter, monthFilter, yearFilter, error>>

\* handleCloseForm: the form is unmounted and its state is gone
HandleCloseForm ==
    /\ phase = "running"
    /\ isFormOpen
    /\ isFormOpen' = FALSE
    /\ editingExpense' = <<>>
    /\ error' = ""
    /\ UNCHANGED <<phase, storage, storeHealthy, tzWest, now, expenses,
                   categoryFilter, monthFilter, yearFilter>>

\* handleSubmit with the form holding name, amount, dueDate, category, then
\* onUpdate or onAdd, the render and the persistence effect
HandleSubmit(name, amount, dueDate, category) ==
    /\ phase = "running"
    /\ isFormOpen
    /\ LET msg == ValidationError(name, amount, dueDate, category)
           expenseData == [name |-> name, amount |-> amount,
                           dueDate |-> dueDate, category |-> category]
       IN  IF msg # ""
           THEN /\ error' = msg
                /\ UNCHANGED <<expenses, storage, isFormOpen, editingExpense>>
           ELSE /\ error' = ""
                /\ isFormOpen' = FALSE
                /\ editingExpense' = <<>>
                /\ IF editingExpense # <<>>
                   THEN expenses' = updateExpense(expenses,
                            [editingExpense[1] EXCEPT !.name = name,
                                !.amount = amount, !.dueDate = dueDate,
                                !.category = category])
                   ELSE /\ Len(expenses) < MaxExpenses
                        /\ expenses' = addExpense(expenses, expenseData, now)
                /\ storage' = PersistEffect(storage, expenses')
    /\ UNCHANGED <<phase, storeHealthy, tzWest, now, categoryFilter,
                   monthFilter, yearFilter>>

\* onDelete(id), from the Delete button of an expense shown; confirmed is
\* the answer of window.confirm
OnDelete(id, confirmed) ==
    /\ phase = "running"
    /\ IF confirmed
       THEN /\ expenses' = deleteExpense(expenses, id)
            /\ storage' = PersistEffect(storage, expenses')
       ELSE UNCHANGED <<expenses, storage>>
    /\ UNCHANGED <<phase, storeHealthy, tzWest, now, isFormOpen, editingExpense,
                   categoryFilter, monthFilter, yearFilter, error>>

\* onTogglePaid(id), from the paid / unpaid button of an expense shown
OnTogglePaid(id) ==
    /\ phase = "running"
    /\ expenses' = togglePaid(expenses, id)
    /\ storage' = PersistEffect(storage, expenses')
    /\ UNCHANGED <<phase, storeHealthy, tzWest, now, isFormOpen, editingExpense,
                   categoryFilter, monthFilter, yearFilter, error>>

\* setCategoryFilter, from a category button
SetCategoryFilter(v) ==
    /\ phase = "running"
    /\ categoryFilter' = v
    /\ UNCHANGED <<phase, storage, storeHealthy, tzWest, now, expenses, isFormOpen,
                   editingExpense, monthFilter, yearFilter, error>>

\* setMonthFilter, from the month select
SetMonthFilter(v) ==
    /\ phase = "running"
    /\ monthFilter' = v
    /\ UNCHANGED <<phase, storage, storeHealthy, tzWest, now, expenses, isFormOpen,
                   editingExpense, categoryFilter, yearFilter, error>>

\* setYearFilter, from the year select
SetYearFilter(v) ==
    /\ phase = "running"
    /\ yearFilter' = v
    /\ UNCHANGED <<phase, storage, storeHealthy, tzWest, now, expenses, isFormOpen,
                   editingExpense, categoryFilter, monthFilter, error>>

\* the buttons of the ExpenseItem of each expense shown
ClickEdit == \E k \in 1..Len(Shown) : HandleEdit(Shown[k])

ClickDelete ==
    \E k \in 1..Len(Shown), confirmed \in BOOLEAN : OnDelete(Shown[k].id, confirmed)

ClickTogglePaid == \E k \in 1..Len(Shown) : OnTogglePaid(Shown[k].id)

Next ==
    \/ Mount
    \/ Tick
    \/ HandleAddNew
    \/ ClickEdit
    \/ HandleCloseForm
    \/ \E f \in FormInputs : HandleSubmit(f.name, f.amount, f.dueDate, f.category)
    \/ ClickDelete
    \/ ClickTogglePaid
    \/ \E v \in CategoryOptions : SetCategoryFilter(v)
    \/ \E v \in MonthOptions : SetMonthFilter(v)
    \/ \E v \in YearOptions : SetYearFilter(v)

Spec == Init /\ [][Next]_vars

SpecFresh == InitFresh /\ [][Next]_vars

\* load, then filter: the derived list and the summary over many collections
NextView ==
    \/ Mount
    \/ \E v \in ViewCategoryOptions : SetCategoryFilter(v)
    \/ \E v \in ViewMonthOptions : SetMonthFilter(v)
    \/ \E v \in ViewYearOptions : SetYearFilter(v)

SpecView == InitView /\ [][NextView]_vars

\* ================================================================ claims
\* is e one of the expenses shown
InShown(e) == \E j \in 1..Len(Shown) : Shown[j] = e

\* the list without its k-th element
RemoveAt(list, k) == SubSeq(list, 1, k - 1) \o SubSeq(list, k + 1, Len(list))

\* C1: no two records of the collection share an id, in a session that
\* started from an empty collection.
C1_UniqueIds ==
    \A i, j \in 1..Len(expenses) : i # j => expenses[i].id # expenses[j].id

\* C2: with a healthy store, once the app runs the stored blob is the
\* serialization of the collection in memory: no add, update, delete or
\* togglePaid is left unpersisted when the next event is handled.
C2_StoredIsSerialized ==
    (phase = "running" /\ storeHealthy) => storage = JSONStringify(expenses)

\* C2 witness: a record added through the form, then marked paid, is what
\* the healthy store holds.
C2_Witness ==
    /\ phase = "running" /\ storeHealthy
    /\ \E k \in 1..Len(expenses) : expenses[k].name = "Rent" /\ expenses[k].paid
    /\ storage = JSONStringify(expenses)

\* the stored value is absent or malformed: it is no text of an array of
\* expense objects
Malformed(blob) ==
    blob.kind # "array" \/ \E k \in 1..Len(blob.items) : blob.items[k].null

\* C3: startup never ends in a fatal error, and an absent or malformed stored
\* value gives the empty collection.
C3_LoadNeverFatal ==
    [][phase = "init" =>
          /\ phase' = "running"
          /\ Malformed(storage) => expenses' = <<>>]_vars

C5_RejectedSubmitChangesNothing ==
    [][\A f \in FormInputs :
          LET anyEmpty == f.name = "" \/ f.amount = <<>> \/ f.dueDate = <<>>
                              \/ f.category = ""
              notPositive == ~ParseFloat(f.amount).nan /\ ParseFloat(f.amount).n <= 0
          IN  (/\ isFormOpen
               /\ anyEmpty \/ notPositive
               /\ HandleSubmit(f.name, f.amount, f.dueDate, f.category)) =>
                  /\ error' = IF anyEmpty THEN "All fields are required."
                              ELSE "Amount must be greater than zero."
                  /\ expenses' = expenses
                  /\ storage' = storage
                  /\ isFormOpen'
                  /\ editingExpense' = editingExpense]_vars

\* C5 witness: the form is still open on the amount message while the
\* collection holds a record.
C5_Witness ==
    /\ isFormOpen
    /\ error = "Amount must be greater than zero."
    /\ Len(expenses) >= 1

\* has the expense a dueDate that new Date parses
Parseable(e) == NewDate(e.dueDate).valid

\* C6: a record whose dueDate is missing or is not a parseable date is never
\* in the filtered set, whatever the filters, (All, All, All) included.
C6_UnparseableNeverShown ==
    \A k \in 1..Len(expenses) : ~Parseable(expenses[k]) => ~InShown(expenses[k])

\* C6, amended: a record whose dueDate is missing or empty is never in the
\* filtered set; a record whose dueDate is present but not a parseable date
\* is in it exactly when the category filter is All or its category and both
\* the month filter and the year filter are All.
C6_UnparseableShownOnlyUnderAll ==
    \A k \in 1..Len(expenses) :
        LET e == expenses[k]
        IN  /\ (e.dueDate = Undefined \/ e.dueDate = <<>>) => ~InShown(e)
            /\ (e.dueDate # Undefined /\ e.dueDate # <<>> /\ ~Parseable(e)) =>
                  (InShown(e) <=>
                      /\ categoryFilter = "All" \/ e.category = categoryFilter
                      /\ monthFilter = All
                      /\ yearFilter = All)

\* C6 witness: under a category filter, a record with an unparseable dueDate
\* is shown while one without a dueDate is in the collection.
C6_Witness ==
    /\ phase = "running"
    /\ categoryFilter = "Utilities"
    /\ \E k \in 1..Len(expenses) : expenses[k] = BadDate /\ InShown(BadDate)
    /\ \E k \in 1..Len(expenses) : expenses[k] = NoDate

\* what the filter should let through, on the calendar date written in dueDate
ClaimedMatch(e) ==
    /\ categoryFilter = "All" \/ e.category = categoryFilter
    /\ yearFilter = All \/ NewDate(e.dueDate).y = ParseInt(yearFilter).n
    /\ monthFilter = All \/ NewDate(e.dueDate).m - 1 = ParseInt(monthFilter).n

\* C7: the records with a parseable dueDate that are shown are exactly those
\* whose category, calendar year and zero-indexed calendar month all pass
\* their filter, in collection order; a change of filter leaves the
\* collection as it is.
C7_FilterIsConjunction ==
    /\ [](SelectSeq(Shown, Parseable)
            = SelectSeq(SelectSeq(expenses, Parseable), ClaimedMatch))
    /\ [][(\/ categoryFilter' # categoryFilter
           \/ monthFilter' # monthFilter
           \/ yearFilter' # yearFilter) => expenses' = expenses]_vars

\* the sum in which an amount that is no number counts as 0
RECURSIVE ClaimedTotal(_)
ClaimedTotal(list) ==
    IF list = <<>> THEN 0
    ELSE ClaimedTotal(Tail(list))
         + (IF ParseFloat(Head(list).amount).nan THEN 0
            ELSE ParseFloat(Head(list).amount).n)

\* C8: the total of the filtered set is the sum of its numeric amounts, a
\* non-numeric amount counting as 0; total and paidTotal are never NaN, and
\* total = paidTotal + unpaidTotal.
C8_TotalsAreNumbers ==
    /\ NumStrictEq(TotalOf(Shown), Num(ClaimedTotal(Shown)))
    /\ ~PaidOf(Shown).nan
    /\ NumStrictEq(UnpaidOf(Shown), NumSub(TotalOf(Shown), PaidOf(Shown)))
    /\ NumStrictEq(TotalOf(Shown), NumAdd(PaidOf(Shown), UnpaidOf(Shown)))

\* the ids of the records of the collection
IdsOf(list) == {list[k].id : k \in 1..Len(list)}

\* C9: a confirmed delete of an id that is present removes one record, the
\* id is absent afterwards and the other records keep their order; a delete
\* of an absent id, or a declined one, leaves the collection as it is.
C9_DeleteRemovesOne ==
    [][/\ \A id \in IdsOf(expenses) :
            /\ OnDelete(id, TRUE) =>
                  /\ id \notin IdsOf(expenses')
                  /\ Len(expenses') = Len(expenses) - 1
                  /\ \E i \in 1..Len(expenses) :
                        expenses[i].id = id /\ expenses' = RemoveAt(expenses, i)
            /\ OnDelete(id, FALSE) => expenses' = expenses
       /\ \A id \in (1..MaxClock) \ IdsOf(expenses) :
            deleteExpense(expenses, id) = expenses]_vars

\* C10: togglePaid(id) negates the paid flag of the one record with that id
\* and changes nothing else; a second togglePaid(id) restores the collection.
C10_ToggleFlipsOne ==
    [][\A id \in IdsOf(expenses) :
          OnTogglePaid(id) =>
              /\ \E i \in 1..Len(expenses) :
                    /\ expenses[i].id = id
                    /\ expenses' = [expenses EXCEPT ![i].paid = ~expenses[i].paid]
              /\ togglePaid(expenses', id) = expenses]_vars

\* C11: a successful update replaces only the name, amount, dueDate and
\* category of the record opened for editing: the record keeps its id, its
\* place and the paid flag it has in the collection when the update runs
\* (also after a togglePaid or delete since the form was opened), the size
\* is unchanged and every other record is unchanged.
C11_UpdateKeepsPaid ==
    [][\A f \in FormInputs :
          (/\ isFormOpen
           /\ editingExpense # <<>>
           /\ ValidationError(f.name, f.amount, f.dueDate, f.category) = ""
           /\ HandleSubmit(f.name, f.amount, f.dueDate, f.category)) =>
              /\ Len(expenses') = Len(expenses)
              /\ \A k \in 1..Len(expenses) :
                    expenses'[k] =
                        IF expenses[k].id = editingExpense[1].id
                        THEN [expenses[k] EXCEPT !.name = f.name,
                                !.amount = f.amount, !.dueDate = f.dueDate,
                                !.category = f.category]
                        ELSE expenses[k]]_vars

====
